---- MODULE Spec2Model ----
(***************************************************************************)
(* A model of read-spec-files.py: the line tokenizer (split), the spec     *)
(* file parser (read_spec_file), the combiner (combine_spec_files), the    *)
(* LaTeX writer (escape_latex, get_header_version, write_as_latex) and the *)
(* module-level driver that runs the three documentation builds.           *)
(*                                                                         *)
(* Python strings are modelled as sequences of one-character strings, so   *)
(* that tokenizing, stripping and escaping are computed character by       *)
(* character.  Python dicts are modelled as sequences of [k, v] records    *)
(* with pairwise distinct keys, in insertion order.                        *)
(***************************************************************************)
EXTENDS Naturals, Sequences, FiniteSets

VARIABLES
    \* split(s, maxIndex): its arguments and its return value
    line, maxIndex, fields, spl_pc,
    \* escape_latex(text): its argument and its return value
    text, escaped, esc_pc,
    \* read_spec_file: the loop over response.iter_lines()
    rd_line, rd_count, rd_groups, rd_result, rd_pc,
    \* combine_spec_files: its argument, loop position and locals
    files, fileIdx, c_groups, c_results,
    \* the retrieval collaborator: requests made, status of the last response,
    \* and (history) what each successful response held
    nFetch, status, log,
    \* module level: the globals, the build being run, the files on disk
    groups, result, header_version, build, written,
    \* position of the script and the exception that ended it
    pc, error

splitVars == <<line, maxIndex, fields, spl_pc>>
escVars   == <<text, escaped, esc_pc>>
readVars  == <<rd_line, rd_count, rd_groups, rd_result, rd_pc>>
combVars  == <<files, fileIdx, c_groups, c_results, nFetch, status, log>>
drvVars   == <<groups, result, header_version, build, written>>
ctlVars   == <<pc, error>>
vars == <<splitVars, escVars, readVars, combVars, drvVars, ctlVars>>

----------------------------------------------------------------------------
(* Characters and strings *)

Quote == "\""
Backslash == "\\"
\* the characters the regular expression class \s matches (those modelled)
Whitespace == {" ", "\t"}
IsSpace(c) == c \in Whitespace

\* all strings over alphabet A of length at most n
RECURSIVE StringsUpTo(_, _)
StringsUpTo(A, n) ==
    IF n = 0 THEN {<<>>}
    ELSE LET shorter == StringsUpTo(A, n - 1)
         IN  shorter \cup {Append(s, c) : s \in shorter, c \in A}

RECURSIVE Concat(_)
Concat(ss) == IF ss = <<>> THEN <<>> ELSE Head(ss) \o Concat(Tail(ss))

StartsWith(s, p) == Len(s) >= Len(p) /\ SubSeq(s, 1, Len(p)) = p

\* str.strip(): leading and trailing whitespace removed
RECURSIVE LStrip(_)
LStrip(s) == IF s # <<>> /\ IsSpace(Head(s)) THEN LStrip(Tail(s)) ELSE s
RECURSIVE RStrip(_)
RStrip(s) ==
    IF s # <<>> /\ IsSpace(s[Len(s)]) THEN RStrip(SubSeq(s, 1, Len(s) - 1)) ELSE s
Strip(s) == RStrip(LStrip(s))

\* str.replace(old, new) for a one-character old
RECURSIVE Replace(_, _, _)
Replace(s, old, new) ==
    IF s = <<>> THEN <<>>
    ELSE (IF Head(s) = old THEN new ELSE <<Head(s)>>) \o Replace(Tail(s), old, new)

\* index of the first occurrence of c in s at or after from, 0 if none
RECURSIVE Find(_, _, _)
Find(s, c, from) ==
    IF from > Len(s) THEN 0
    ELSE IF s[from] = c THEN from ELSE Find(s, c, from + 1)

Contains(s, c) == Find(s, c, 1) # 0

----------------------------------------------------------------------------
(* split: the tokenizer *)

RECURSIVE SkipSpace(_, _)
SkipSpace(s, p) == IF p <= Len(s) /\ IsSpace(s[p]) THEN SkipSpace(s, p + 1) ELSE p

RECURSIVE RunEnd(_, _)
RunEnd(s, p) == IF p + 1 <= Len(s) /\ ~IsSpace(s[p + 1]) THEN RunEnd(s, p + 1) ELSE p

\* The end of group 1 of a match of (".+?"|[\S]+) that starts at p, where
\* s[p] is not whitespace: the first alternative is tried first and matches
\* lazily up to the first quote that leaves at least one character between;
\* otherwise the maximal run of non-whitespace.
GroupEnd(s, p) ==
    IF s[p] = Quote /\ Find(s, Quote, p + 2) # 0
    THEN Find(s, Quote, p + 2)
    ELSE RunEnd(s, p)

\* re.finditer(r'(".+?"|[\S]+)\s*', s) from position pos on: the matches in
\* order, each with the first and last index of group 1 and the last index
\* of the whole match (group 1 and the whitespace after it).
RECURSIVE finditer(_, _)
finditer(s, pos) ==
    LET p == SkipSpace(s, pos)
    IN  IF p > Len(s) THEN <<>>
        ELSE LET e == GroupEnd(s, p)
                 n == SkipSpace(s, e + 1)
             IN  <<[start |-> p, gend |-> e, end |-> n - 1]>> \o finditer(s, n)

\* group 1 capturing only the text between the quotes
MutGroup1Unquoted(s, i) ==
    IF s[i.start] = Quote /\ Find(s, Quote, i.start + 2) # 0
    THEN SubSeq(s, i.start + 1, i.gend - 1)
    ELSE SubSeq(s, i.start, i.gend)

\* i.group(1)
group1(s, i) == SubSeq(s, i.start, i.gend)

\* the loop stopping one token late (index > maxIndex)
RECURSIVE MutSplitLoopLate(_, _, _, _)
MutSplitLoopLate(s, iter, index, maxIdx) ==
    IF iter = <<>> THEN <<>>
    ELSE LET i == Head(iter)
         IN  IF index + 1 > maxIdx
             THEN <<group1(s, i), SubSeq(s, i.end + 1, Len(s))>>
             ELSE <<group1(s, i)>> \o MutSplitLoopLate(s, Tail(iter), index + 1, maxIdx)

\* the for loop of split over the matches
RECURSIVE SplitLoop(_, _, _, _)
SplitLoop(s, iter, index, maxIdx) ==
    IF iter = <<>> THEN <<>>
    ELSE LET i == Head(iter)
         IN  IF index + 1 >= maxIdx
             THEN <<group1(s, i), SubSeq(s, i.end + 1, Len(s))>>
             ELSE <<group1(s, i)>> \o SplitLoop(s, Tail(iter), index + 1, maxIdx)

split(s, maxIdx) == SplitLoop(s, finditer(s, 1), 0, maxIdx)

----------------------------------------------------------------------------
(* escape_latex *)

\* the replacements dict, in insertion order
replacements ==
    << [old |-> Backslash,
        new |-> <<Backslash, "t", "e", "x", "t", "b", "a", "c", "k", "s", "l", "a", "s", "h", "{", "}">>],
       [old |-> "&", new |-> <<Backslash, "&">>],
       [old |-> "%", new |-> <<Backslash, "%">>],
       [old |-> "$", new |-> <<Backslash, "$">>],
       [old |-> "#", new |-> <<Backslash, "#">>],
       [old |-> "_", new |-> <<Backslash, "_">>],
       [old |-> "{", new |-> <<Backslash, "{">>],
       [old |-> "}", new |-> <<Backslash, "}">>],
       [old |-> "~",
        new |-> <<Backslash, "t", "e", "x", "t", "a", "s", "c", "i", "i", "t", "i", "l", "d", "e", "{", "}">>],
       [old |-> "^",
        new |-> <<Backslash, "t", "e", "x", "t", "a", "s", "c", "i", "i", "c", "i", "r", "c", "u", "m", "{", "}">>] >>

\* for old, new in replacements.items(): text = text.replace(old, new)
RECURSIVE ReplaceAll(_, _)
ReplaceAll(t, reps) ==
    IF reps = <<>> THEN t
    ELSE ReplaceAll(Replace(t, Head(reps).old, Head(reps).new), Tail(reps))

escape_latex(t) == ReplaceAll(t, replacements)

----------------------------------------------------------------------------
(* Python dicts: insertion-ordered sequences of [k, v] with distinct keys *)

DictKeys(d) == {d[i].k : i \in 1..Len(d)}
DictIndex(d, key) == CHOOSE i \in 1..Len(d) : d[i].k = key
DictGet(d, key) == d[DictIndex(d, key)].v

\* d[key] = value: an existing key keeps its position
DictSet(d, key, value) ==
    IF key \in DictKeys(d)
    THEN [d EXCEPT ![DictIndex(d, key)] = [k |-> key, v |-> value]]
    ELSE Append(d, [k |-> key, v |-> value])

\* an update that keeps the value of a key the dict already holds
RECURSIVE MutUpdateKeepFirst(_, _)
MutUpdateKeepFirst(d, other) ==
    IF other = <<>> THEN d
    ELSE MutUpdateKeepFirst(
            IF Head(other).k \in DictKeys(d) THEN d
            ELSE Append(d, Head(other)),
            Tail(other))

\* d.update(other)
RECURSIVE DictUpdate(_, _)
DictUpdate(d, other) ==
    IF other = <<>> THEN d
    ELSE DictUpdate(DictSet(d, Head(other).k, Head(other).v), Tail(other))

\* d.values()
DictValues(d) == [i \in 1..Len(d) |-> d[i].v]

----------------------------------------------------------------------------
(* Card and read_spec_file *)

BLANK   == <<"B", "L", "A", "N", "K">>
NoneStr == <<"N", "o", "n", "e">>
HEADVER == <<"H", "E", "A", "D", "V", "E", "R">>
Unknown == <<"U", "n", "k", "n", "o", "w", "n">>

\* Card(*args): six required fields, two with defaults; any other number of
\* positional arguments raises TypeError
CardArity(args) == Len(args) \in 6..8
Card(args) ==
    [source      |-> args[1],
     group       |-> args[2],
     header      |-> args[3],
     type        |-> args[4],
     spec        |-> args[5],
     description |-> args[6],
     example     |-> IF Len(args) >= 7 THEN args[7] ELSE <<>>,
     notes       |-> IF Len(args) >= 8 THEN args[8] ELSE <<>>]

\* the padding of a record line's fields
PadFields(spec) == IF Len(spec) < 4 THEN spec \o << <<" ">> >> ELSE spec

\* the group-definition branch: the new groups dict
BlankBranch(g, ln) ==
    LET spec == split(ln, 2)
    IN  IF Len(spec) = 3 THEN DictSet(g, spec[2], spec[3]) ELSE g

\* the arguments the record branch hands to Card
RecordArgs(ln, source) ==
    LET spec  == PadFields(split(ln, 3))
        key0  == spec[1]
        colon == Find(key0, ":", 1)
        group == IF colon # 0 THEN SubSeq(key0, 1, colon - 1) ELSE NoneStr
        key1  == IF colon # 0 THEN SubSeq(key0, colon + 1, Len(key0)) ELSE key0
        key   == Replace(key1, "!", <<>>)
    IN  <<source, group, key>> \o Tail(spec)

IsSkipped(ln) == StartsWith(ln, <<"#">>) \/ Strip(ln) = <<>>
IsBlankLine(ln) == ~IsSkipped(ln) /\ StartsWith(ln, BLANK)
IsRecordLine(ln) == ~IsSkipped(ln) /\ ~StartsWith(ln, BLANK)

\* one iteration of the loop over the lines of the response
LineBody(st, ln, source) ==
    IF IsSkipped(ln) THEN st
    ELSE IF StartsWith(ln, BLANK)
    THEN [st EXCEPT !.groups = BlankBranch(st.groups, ln)]
    ELSE LET args == RecordArgs(ln, source)
         IN  IF CardArity(args)
             THEN [st EXCEPT !.result = DictSet(st.result, args[3], Card(args))]
             ELSE [st EXCEPT !.error = "TypeError"]

RECURSIVE ReadLines(_, _, _)
ReadLines(st, lines, source) ==
    IF lines = <<>> \/ st.error # "none" THEN st
    ELSE ReadLines(LineBody(st, Head(lines), source), Tail(lines), source)

\* a parser that answers a failed retrieval with empty mappings
MutReadSwallowsFailure(response, source) ==
    IF response.status_code = 200
    THEN ReadLines([groups |-> <<>>, result |-> <<>>, error |-> "none"],
                   response.lines, source)
    ELSE [groups |-> <<>>, result |-> <<>>, error |-> "none"]

\* read_spec_file on a response: [error, groups, result]
read_spec_file(response, source) ==
    IF response.status_code = 200
    THEN ReadLines([groups |-> <<>>, result |-> <<>>, error |-> "none"],
                   response.lines, source)
    ELSE [groups |-> <<>>, result |-> <<>>, error |-> "FileNotFoundError"]

----------------------------------------------------------------------------
(* get_header_version and write_as_latex *)

RECURSIVE FirstHeadver(_)
FirstHeadver(cards) ==
    IF cards = <<>> THEN Unknown
    ELSE IF Head(cards).header = HEADVER THEN Head(cards).spec
    ELSE FirstHeadver(Tail(cards))

get_header_version(specs) == FirstHeadver(DictValues(specs))

\* grouped_specs seeded with "None" and then the supplied groups, in order
RECURSIVE SeedFrom(_, _)
SeedFrom(grouped, gs) ==
    IF gs = <<>> THEN grouped
    ELSE SeedFrom(DictSet(grouped, Head(gs).k, <<>>), Tail(gs))

SeedBuckets(gs) == SeedFrom(DictSet(<<>>, NoneStr, <<>>), gs)

\* grouped_specs[group]: a key the dict does not hold raises KeyError
BucketLookup(grouped, group) ==
    IF group \in DictKeys(grouped)
    THEN [found |-> TRUE, grouped |-> grouped]
    ELSE [found |-> FALSE, grouped |-> grouped]

\* the loop over specs.values(): appends each card to its bucket and
\* tracks header_version
RECURSIVE GroupCards(_, _)
GroupCards(st, cards) ==
    IF cards = <<>> \/ st.error # "none" THEN st
    ELSE LET card == Head(cards)
             look == BucketLookup(st.grouped, card.group)
         IN  IF ~look.found THEN [st EXCEPT !.error = "KeyError"]
             ELSE GroupCards(
                    [st EXCEPT
                       !.grouped = DictSet(look.grouped, card.group,
                                     Append(DictGet(look.grouped, card.group), card)),
                       !.header_version =
                           IF card.header = HEADVER THEN card.spec ELSE @],
                    Tail(cards))

\* re.sub("--+", "", description): every run of two or more dashes removed
RECURSIVE DashRunEnd(_, _)
DashRunEnd(s, p) == IF p + 1 <= Len(s) /\ s[p + 1] = "-" THEN DashRunEnd(s, p + 1) ELSE p
RECURSIVE SubDashes(_, _)
SubDashes(s, p) ==
    IF p > Len(s) THEN <<>>
    ELSE IF s[p] = "-" /\ DashRunEnd(s, p) > p THEN SubDashes(s, DashRunEnd(s, p) + 1)
    ELSE <<s[p]>> \o SubDashes(s, p + 1)

GroupSuffix == <<" ", "G", "r", "o", "u", "p">>
NoGroupAssigned ==
    <<"N", "o", " ", "G", "r", "o", "u", "p", " ", "A", "s", "s", "i", "g", "n", "e", "d">>

\* the heading of a bucket
Heading(gs, group_name) ==
    LET got == IF group_name \in DictKeys(gs) THEN DictGet(gs, group_name) ELSE <<>>
        description ==
            IF got = <<>>
            THEN (IF group_name = NoneStr THEN NoGroupAssigned
                  ELSE group_name \o GroupSuffix)
            ELSE got
    IN  escape_latex(Strip(SubDashes(description, 1)))

Row(card) ==
    <<escape_latex(Replace(card.header, ".", <<" ">>)),
      escape_latex(card.type),
      escape_latex(card.description)>>

\* the tables written, one per non-empty bucket, in bucket order
RECURSIVE Tables(_, _)
Tables(gs, grouped) ==
    IF grouped = <<>> THEN <<>>
    ELSE LET b == Head(grouped)
         IN  (IF b.v = <<>> THEN <<>>
              ELSE << [group   |-> b.k,
                       heading |-> Heading(gs, b.k),
                       rows    |-> [i \in 1..Len(b.v) |-> Row(b.v[i])]] >>)
             \o Tables(gs, Tail(grouped))

\* a writer that prints the version line before the scan of the records
MutWriteStaleVersion(gs, specs, hv) ==
    LET st == GroupCards([grouped        |-> SeedBuckets(gs),
                          header_version |-> hv,
                          error          |-> "none"],
                         DictValues(specs))
    IN  IF st.error # "none"
        THEN [error |-> st.error, version |-> <<>>, tables |-> <<>>]
        ELSE [error   |-> "none",
              version |-> hv,
              tables  |-> Tables(gs, st.grouped)]

\* write_as_latex(file, groups, specs, header_version): the exception it
\* raises, or the content of the file it writes
write_as_latex(gs, specs, hv) ==
    LET st == GroupCards([grouped        |-> SeedBuckets(gs),
                          header_version |-> hv,
                          error          |-> "none"],
                         DictValues(specs))
    IN  IF st.error # "none"
        THEN [error |-> st.error, version |-> <<>>, tables |-> <<>>]
        ELSE [error   |-> "none",
              version |-> st.header_version,
              tables  |-> Tables(gs, st.grouped)]

----------------------------------------------------------------------------
(* Inputs: the lines, files and mappings the environment supplies *)

MaxLineLen   == 6
MaxIndexArg  == 3
MaxTextLen   == 2
MaxTail      == 3
MaxFileLines == 2
MaxFiles     == 3
MaxCards     == 2
MaxGroups    == 2

SplitAlphabet  == {"a", " ", Quote}
EscapeAlphabet == {Backslash, "&", "%", "$", "#", "_", "{", "}", "~", "^", "a"}
TailAlphabet   == {"a", " ", ":", "!"}

\* lines handed to the parser: a prefix that selects the branch, then any
\* short tail
LinePrefixes ==
    { <<>>, <<"#">>, BLANK, BLANK \o <<" ">>, <<"a", " ", "a", " ">> }
InputLines ==
    {p \o t : p \in LinePrefixes, t \in StringsUpTo(TailAlphabet, MaxTail)}

\* spec-file lines the retrieval collaborator may serve
L_comment  == <<"#", " ", "c">>
L_groupG   == <<"B", "L", "A", "N", "K", " ", "G", " ", "-", "-", "x", "-", "-">>
L_groupG2  == <<"B", "L", "A", "N", "K", " ", "G", " ", "y">>
L_groupI   == <<"B", "L", "A", "N", "K", " ", "I", " ", "w">>
L_groupH   == <<"B", "L", "A", "N", "K", " ", "H", " ", "z">>
L_cardK    == <<"G", ":", "K", "!", " ", "t", " ", "s", " ", "d", "_">>
L_cardK2   == <<"K", " ", "u", " ", "s", " ", "e">>
L_cardJ    == <<"H", ":", "J", " ", "t", " ", "s", " ", "d">>
L_headver1 == <<"H", "E", "A", "D", "V", "E", "R", " ", "t", " ", "1", " ", "d">>
L_headver2 == <<"H", "E", "A", "D", "V", "E", "R", " ", "t", " ", "2", " ", "d">>
L_short    == <<"K", " ", "t">>

\* the spec files the retrieval collaborator may serve: one that defines
\* groups and records and holds a record of a group it does not define, one
\* that overrides definitions of the first, and one that holds a record
\* line with too few tokens
ServerFiles ==
    << <<L_comment, L_groupG, L_groupI, L_cardK, L_headver1, L_cardJ>>,
       <<L_groupG2, L_groupH, L_cardK2, L_headver2>>,
       <<L_short>> >>

Responses ==
    {[status_code |-> 200, content |-> c, lines |-> ServerFiles[c]]
        : c \in 1..Len(ServerFiles)}
    \cup {[status_code |-> 404, content |-> 0, lines |-> <<>>]}

lsstcam_primary_files ==
    <<"primary-groups", "merged-primary", "lsstcam-primary",
      "header-service-primary", "filter">>
auxtel_primary_files ==
    <<"primary-groups", "merged-primary", "ats-primary",
      "header-service-primary", "ats-header-service-primary">>
amplifier_files == <<"extended">>
BuildFiles == <<lsstcam_primary_files, auxtel_primary_files, amplifier_files>>
Builds == 1..Len(BuildFiles)

\* argument lists for combine_spec_files called on its own
FileNames == {"primary-groups", "extended"}
RECURSIVE ListsUpTo(_, _)
ListsUpTo(S, n) ==
    IF n = 0 THEN {<<>>}
    ELSE LET shorter == ListsUpTo(S, n - 1)
         IN  shorter \cup {Append(l, x) : l \in shorter, x \in S}

\* group and record mappings for write_as_latex called on its own
GroupIds == { <<"G">>, <<"H">> }
Descriptions == { <<>>, <<"-", "-", "x", "_", "-", "-">> }
RECURSIVE GroupDicts(_)
GroupDicts(n) ==
    IF n = 0 THEN {<<>>}
    ELSE LET shorter == GroupDicts(n - 1)
         IN  shorter \cup
             UNION { {Append(d, [k |-> g, v |-> desc])
                        : g \in GroupIds \ DictKeys(d), desc \in Descriptions}
                     : d \in shorter }

InputCards ==
    {Card(<<"primary-groups", g, h, <<"t">>, sp, <<"d", "_">>>>)
        : g \in GroupIds \cup {NoneStr},
          h \in {HEADVER, <<"K">>, <<"J", ".", "x">>},
          sp \in { <<"1">>, <<"2">> }}
RECURSIVE CardDicts(_)
CardDicts(n) ==
    IF n = 0 THEN {<<>>}
    ELSE LET shorter == CardDicts(n - 1)
         IN  shorter \cup
             UNION { {Append(d, [k |-> c.header, v |-> c])
                        : c \in {x \in InputCards : x.header \notin DictKeys(d)}}
                     : d \in shorter }

----------------------------------------------------------------------------
(* State *)

NoFile == [error |-> "nofile", version |-> <<>>, tables |-> <<>>]

SplitIdle == line = <<>> /\ maxIndex = 1 /\ fields = <<>> /\ spl_pc = "idle"
EscIdle   == text = <<>> /\ escaped = <<>> /\ esc_pc = "idle"
ReadIdle  ==
    /\ rd_line = <<>> /\ rd_count = 0 /\ rd_groups = <<>> /\ rd_result = <<>>
    /\ rd_pc = "idle"
CombIdle  ==
    /\ files = <<>> /\ fileIdx = 1 /\ c_groups = <<>> /\ c_results = <<>>
    /\ nFetch = 0 /\ status = 0 /\ log = <<>>
DrvIdle   ==
    /\ groups = <<>> /\ result = <<>> /\ header_version = Unknown
    /\ build = 1 /\ written = [b \in Builds |-> NoFile]

----------------------------------------------------------------------------
(* split and escape_latex, called on any input *)

InitSplit ==
    /\ line \in StringsUpTo(SplitAlphabet, MaxLineLen)
    /\ maxIndex \in 1..MaxIndexArg
    /\ fields = <<>>
    /\ spl_pc = "call"
    /\ EscIdle /\ ReadIdle /\ CombIdle /\ DrvIdle
    /\ pc = "idle" /\ error = "none"

Split ==
    /\ spl_pc = "call"
    /\ fields' = split(line, maxIndex)
    /\ spl_pc' = "done"
    /\ UNCHANGED <<line, maxIndex, escVars, readVars, combVars, drvVars, ctlVars>>

SpecSplit == InitSplit /\ [][Split]_vars

InitEscape ==
    /\ text \in StringsUpTo(EscapeAlphabet, MaxTextLen)
    /\ escaped = <<>>
    /\ esc_pc = "call"
    /\ SplitIdle /\ ReadIdle /\ CombIdle /\ DrvIdle
    /\ pc = "idle" /\ error = "none"

Escape ==
    /\ esc_pc = "call"
    /\ escaped' = escape_latex(text)
    /\ esc_pc' = "done"
    /\ UNCHANGED <<text, splitVars, readVars, combVars, drvVars, ctlVars>>

SpecEscape == InitEscape /\ [][Escape]_vars

----------------------------------------------------------------------------
(* read_spec_file, line by line *)

InitRead ==
    /\ rd_line = <<>> /\ rd_count = 0 /\ rd_groups = <<>> /\ rd_result = <<>>
    /\ rd_pc = "loop"
    /\ SplitIdle /\ EscIdle /\ CombIdle /\ DrvIdle
    /\ pc = "idle" /\ error = "none"

\* one iteration of the loop over response.iter_lines()
ReadLine ==
    /\ rd_pc = "loop"
    /\ rd_count < MaxFileLines
    /\ \E ln \in InputLines :
         LET st == LineBody([groups |-> rd_groups, result |-> rd_result,
                             error |-> "none"], ln, "primary-groups")
         IN  /\ rd_line' = ln
             /\ rd_count' = rd_count + 1
             /\ rd_groups' = st.groups
             /\ rd_result' = st.result
             /\ rd_pc' = IF st.error = "none" THEN "loop" ELSE st.error
    /\ UNCHANGED <<splitVars, escVars, combVars, drvVars, ctlVars>>

\* the response has no further line: return (groups, result)
ReadReturn ==
    /\ rd_pc = "loop"
    /\ rd_pc' = "returned"
    /\ UNCHANGED <<rd_line, rd_count, rd_groups, rd_result>>
    /\ UNCHANGED <<splitVars, escVars, combVars, drvVars, ctlVars>>

SpecRead == InitRead /\ [][ReadLine \/ ReadReturn]_vars

----------------------------------------------------------------------------
(* combine_spec_files *)

InitCombine ==
    /\ files \in ListsUpTo(FileNames, MaxFiles)
    /\ fileIdx = 1 /\ c_groups = <<>> /\ c_results = <<>>
    /\ nFetch = 0 /\ status = 0 /\ log = <<>>
    /\ SplitIdle /\ EscIdle /\ ReadIdle /\ DrvIdle
    /\ pc = "combine" /\ error = "none"

\* one iteration of the loop over files: fetch and parse one file, merge
CombineStep ==
    /\ pc = "combine"
    /\ fileIdx <= Len(files)
    /\ \E response \in Responses :
         LET r == read_spec_file(response, files[fileIdx])
         IN  /\ nFetch' = nFetch + 1
             /\ status' = response.status_code
             /\ log' = IF response.status_code = 200
                       THEN Append(log, [build |-> build, file |-> files[fileIdx],
                                         content |-> response.content])
                       ELSE log
             /\ IF r.error = "none"
                THEN /\ c_groups' = DictUpdate(c_groups, r.groups)
                     /\ c_results' = DictUpdate(c_results, r.result)
                     /\ fileIdx' = fileIdx + 1
                     /\ UNCHANGED <<pc, error>>
                ELSE /\ pc' = "raised"
                     /\ error' = r.error
                     /\ UNCHANGED <<c_groups, c_results, fileIdx>>
    /\ UNCHANGED <<files, splitVars, escVars, readVars, drvVars>>

\* return (groups, results)
CombineReturn ==
    /\ pc = "combine"
    /\ fileIdx > Len(files)
    /\ pc' = "returned"
    /\ UNCHANGED <<error, splitVars, escVars, readVars, combVars, drvVars>>

SpecCombine == InitCombine /\ [][CombineStep \/ CombineReturn]_vars

----------------------------------------------------------------------------
(* write_as_latex and the driver *)

InitLatex ==
    /\ groups \in GroupDicts(MaxGroups)
    /\ result \in CardDicts(MaxCards)
    /\ header_version \in {Unknown, <<"1">>}
    /\ build = 1
    /\ written = [b \in Builds |-> NoFile]
    /\ SplitIdle /\ EscIdle /\ ReadIdle /\ CombIdle
    /\ pc = "write" /\ error = "none"

\* write_as_latex(<output file of the build>, groups, result, header_version)
WriteAsLatex ==
    /\ pc = "write"
    /\ LET out == write_as_latex(groups, result, header_version)
       IN  IF out.error = "none"
           THEN /\ written' = [written EXCEPT ![build] = out]
                /\ pc' = "written"
                /\ UNCHANGED error
           ELSE /\ pc' = "raised"
                /\ error' = out.error
                /\ UNCHANGED written
    /\ UNCHANGED <<groups, result, header_version, build>>
    /\ UNCHANGED <<splitVars, escVars, readVars, combVars>>

SpecLatex == InitLatex /\ [][WriteAsLatex]_vars

InitDriver ==
    /\ files = BuildFiles[1]
    /\ fileIdx = 1 /\ c_groups = <<>> /\ c_results = <<>>
    /\ nFetch = 0 /\ status = 0 /\ log = <<>>
    /\ DrvIdle
    /\ SplitIdle /\ EscIdle /\ ReadIdle
    /\ pc = "combine" /\ error = "none"

\* module-level statements that merge the new records into the old ones
MutAssignKeepsRecords ==
    /\ pc = "returned"
    /\ IF build = 1
       THEN /\ groups' = c_groups
            /\ header_version' = get_header_version(c_results)
       ELSE /\ groups' = DictUpdate(groups, c_groups)
            /\ UNCHANGED header_version
    /\ result' = DictUpdate(result, c_results)
    /\ pc' = "write"
    /\ UNCHANGED <<build, written, error, splitVars, escVars, readVars, combVars>>

\* the module-level statements between a combine_spec_files call and the
\* write_as_latex call that follows it
DriverAssign ==
    /\ pc = "returned"
    /\ IF build = 1
       THEN /\ groups' = c_groups
            /\ header_version' = get_header_version(c_results)
       ELSE /\ groups' = DictUpdate(groups, c_groups)
            /\ UNCHANGED header_version
    /\ result' = c_results
    /\ pc' = "write"
    /\ UNCHANGED <<build, written, error, splitVars, escVars, readVars, combVars>>

\* the next combine_spec_files call, or the end of the script
DriverNext ==
    /\ pc = "written"
    /\ IF build < Len(BuildFiles)
       THEN /\ build' = build + 1
            /\ files' = BuildFiles[build + 1]
            /\ fileIdx' = 1 /\ c_groups' = <<>> /\ c_results' = <<>>
            /\ pc' = "combine"
       ELSE /\ pc' = "done"
            /\ UNCHANGED <<build, files, fileIdx, c_groups, c_results>>
    /\ UNCHANGED <<nFetch, status, log, groups, result, header_version, written,
                   error, splitVars, escVars, readVars>>

Next ==
    \/ CombineStep
    \/ CombineReturn
    \/ DriverAssign
    \/ WriteAsLatex
    \/ DriverNext

Spec == InitDriver /\ [][Next]_vars

----------------------------------------------------------------------------
(* Properties *)

\* the tokens of a line: group 1 of every match of the regular expression
Tokens(s) == LET ms == finditer(s, 1) IN [i \in 1..Len(ms) |-> group1(s, ms[i])]

\* str.split(): the maximal runs of non-whitespace characters
RECURSIVE Words(_, _)
Words(s, cur) ==
    IF s = <<>> THEN (IF cur = <<>> THEN <<>> ELSE <<cur>>)
    ELSE IF IsSpace(Head(s))
    THEN (IF cur = <<>> THEN <<>> ELSE <<cur>>) \o Words(Tail(s), <<>>)
    ELSE Words(Tail(s), Append(cur, Head(s)))

\* C5: split(s, maxIndex) with maxIndex >= 1 returns, when the line holds at
\* least maxIndex tokens, maxIndex + 1 fields: the first maxIndex tokens in
\* order, then the unsplit remainder of the line, which starts right after
\* the maxIndex-th token and its trailing whitespace; when the line holds
\* fewer tokens it returns exactly those tokens.  In a line without quotes
\* the tokens are the whitespace-delimited words.
ThmSplitFields ==
    spl_pc = "done" =>
        LET toks == Tokens(line)
        IN  /\ (~Contains(line, Quote) => toks = Words(line, <<>>))
            /\ IF Len(toks) >= maxIndex
               THEN /\ Len(fields) = maxIndex + 1
                    /\ \A i \in 1..maxIndex : fields[i] = toks[i]
                    /\ LET rest == fields[maxIndex + 1]
                           k    == Len(line) - Len(rest)
                       IN  /\ k >= 0
                           /\ rest = SubSeq(line, k + 1, Len(line))
                           /\ (rest = <<>> \/ ~IsSpace(rest[1]))
                           /\ Tokens(SubSeq(line, 1, k)) = SubSeq(toks, 1, maxIndex)
               ELSE fields = toks

\* a remainder field that itself holds several tokens is returned unsplit
WitSplitFields ==
    /\ spl_pc = "done"
    /\ Len(Tokens(line)) >= maxIndex + 2
    /\ Len(fields) = maxIndex + 1
    /\ Contains(fields[maxIndex + 1], " ")

\* the matches whose group 1 split returns as token fields
ReturnedTokens ==
    {i \in 1..Len(finditer(line, 1)) : i <= maxIndex /\ i <= Len(fields)}
\* the match is a double-quoted string: an opening quote, at least one
\* character, a closing quote
QuotedMatch(i) ==
    LET m == finditer(line, 1)[i]
    IN  line[m.start] = Quote /\ \E q \in (m.start + 2)..Len(line) : line[q] = Quote

\* C6 as stated: the token returned for a double-quoted string is the text
\* between the quotes, the quotes excluded.
CexQuotesExcluded ==
    spl_pc = "done" =>
        \A i \in ReturnedTokens :
            QuotedMatch(i) =>
                LET m == finditer(line, 1)[i]
                IN  \E q \in (m.start + 2)..Len(line) :
                        /\ line[q] = Quote
                        /\ \A j \in (m.start + 2)..(q - 1) : line[j] # Quote
                        /\ fields[i] = SubSeq(line, m.start + 1, q - 1)

\* C6 as amended: the token returned for a double-quoted string is the
\* quoted string with both enclosing quotes kept: it starts at the opening
\* quote, ends at the first quote that leaves at least one character
\* between, and may hold whitespace.
ThmQuotesKept ==
    spl_pc = "done" =>
        \A i \in ReturnedTokens :
            QuotedMatch(i) =>
                LET m == finditer(line, 1)[i]
                    f == fields[i]
                IN  /\ Len(f) >= 3
                    /\ f[1] = Quote
                    /\ f[Len(f)] = Quote
                    /\ \A j \in 3..(Len(f) - 1) : f[j] # Quote
                    /\ f = SubSeq(line, m.start, m.start + Len(f) - 1)

\* a quoted token with interior whitespace is returned
WitQuotesKept ==
    /\ spl_pc = "done"
    /\ \E i \in ReturnedTokens :
          /\ QuotedMatch(i)
          /\ Contains(fields[i], " ")
          /\ fields[i][1] = Quote

\* the escape sequence of one character
EscapeOf(c) ==
    IF \E i \in 1..Len(replacements) : replacements[i].old = c
    THEN replacements[CHOOSE i \in 1..Len(replacements) : replacements[i].old = c].new
    ELSE <<c>>
CharByChar(t) == Concat([i \in 1..Len(t) |-> EscapeOf(t[i])])

\* C7: escape_latex(text) is the character-by-character substitution of
\* each special character by its escape sequence; no character inserted by
\* one substitution is escaped again by another.
CexEscapeCharByChar ==
    esc_pc = "done" => escaped = CharByChar(text)

\* C3: a line starting with BLANK that has only one token after the BLANK
\* keyword adds no entry to the group mapping and raises no error.
BlankWithOneToken(ln) ==
    /\ IsBlankLine(ln)
    /\ Len(Tokens(ln)) = 2
    /\ Tokens(ln)[1] = BLANK
CexBlankOneTokenDropped ==
    [][(rd_count' = rd_count + 1 /\ BlankWithOneToken(rd_line'))
        => (rd_groups' = rd_groups /\ rd_pc' = "loop")]_vars

\* C4: a record line with fewer than three tokens does not fail: a Record
\* for its header is added to the record mapping, with a single space as
\* its description.
ShortRecordLine(ln) == IsRecordLine(ln) /\ Len(Tokens(ln)) < 3
HeaderOf(ln) ==
    LET key0  == Tokens(ln)[1]
        colon == Find(key0, ":", 1)
    IN  Replace(SubSeq(key0, colon + 1, Len(key0)), "!", <<>>)
CexShortRecordPadded ==
    (rd_count > 0 /\ ShortRecordLine(rd_line)) =>
        /\ rd_pc \in {"loop", "returned"}
        /\ HeaderOf(rd_line) \in DictKeys(rd_result)
        /\ DictGet(rd_result, HeaderOf(rd_line)).description = <<" ">>

\* the records, in order, and the group ids no bucket is seeded for
Cards(specs) == {specs[i].v : i \in 1..Len(specs)}
UnseededGroups(gs, specs) ==
    {c.group : c \in Cards(specs)} \ (DictKeys(gs) \cup {NoneStr})

\* C1: write_as_latex completes normally when a record's group id is not a
\* key of the supplied group mapping (and is not "None"), and emits a table
\* for that group headed "<group id> Group".
CexUnknownGroupBucket ==
    (pc \in {"written", "raised"} /\ UnseededGroups(groups, result) # {}) =>
        /\ pc = "written"
        /\ \A g \in UnseededGroups(groups, result) :
              \E i \in 1..Len(written[build].tables) :
                  /\ written[build].tables[i].group = g
                  /\ written[build].tables[i].heading = g \o GroupSuffix

\* C10: the "Header Version:" line written shows the spec field of the
\* record whose header is HEADVER whenever the record mapping holds one, and
\* the header_version passed in only when it holds none.
ThmVersionLine ==
    pc = "written" =>
        written[build].version =
            IF \E c \in Cards(result) : c.header = HEADVER
            THEN (CHOOSE c \in Cards(result) : c.header = HEADVER).spec
            ELSE header_version

\* a file is written for records whose HEADVER differs from the version
\* passed in
WitVersionLine ==
    /\ pc = "written"
    /\ \E c \in Cards(result) : c.header = HEADVER /\ c.spec # header_version
    /\ written[build].tables # <<>>

\* what a logged response parses to
Parsed(e) ==
    read_spec_file([status_code |-> 200, lines |-> ServerFiles[e.content]], e.file)
ParsedGroups(e) == Parsed(e).groups
ParsedRecords(e) == Parsed(e).result

\* the mapping a dict holds, its order forgotten
AsMap(d) == [key \in DictKeys(d) |-> DictGet(d, key)]

\* last definition wins: every key some dict of the sequence defines,
\* mapped to the value of the last dict that defines it
LastWins(ds) ==
    LET defined(key) == {i \in 1..Len(ds) : key \in DictKeys(ds[i])}
        last(key) == CHOOSE i \in defined(key) : \A j \in defined(key) : j <= i
    IN  [key \in UNION {DictKeys(ds[i]) : i \in 1..Len(ds)}
            |-> DictGet(ds[last(key)], key)]

LogOfBuild(b) == SelectSeq(log, LAMBDA e : e.build = b)
LogUpTo(b) == SelectSeq(log, LAMBDA e : e.build <= b)
GroupsOf(entries) == [i \in 1..Len(entries) |-> ParsedGroups(entries[i])]
RecordsOf(entries) == [i \in 1..Len(entries) |-> ParsedRecords(entries[i])]
NoDuplicateKey(d) == \A i, j \in 1..Len(d) : d[i].k = d[j].k => i = j

\* C2: when every file of the list is fetched, the combined mappings hold
\* each header and each group id exactly once, with the value parsed from
\* the last file of the list that defines it.
ThmLastFileWins ==
    pc = "returned" =>
        /\ Len(LogOfBuild(build)) = Len(files)
        /\ NoDuplicateKey(c_results)
        /\ NoDuplicateKey(c_groups)
        /\ AsMap(c_results) = LastWins(RecordsOf(LogOfBuild(build)))
        /\ AsMap(c_groups) = LastWins(GroupsOf(LogOfBuild(build)))

\* two files of the list define the same header with different types and
\* the same group with different descriptions
WitLastFileWins ==
    /\ pc = "returned"
    /\ LET ds == RecordsOf(LogOfBuild(build))
           gs == GroupsOf(LogOfBuild(build))
       IN  /\ \E i, j \in 1..Len(ds) :
                 /\ i < j
                 /\ \E key \in DictKeys(ds[i]) \cap DictKeys(ds[j]) :
                       DictGet(ds[i], key).type # DictGet(ds[j], key).type
           /\ \E i, j \in 1..Len(gs) :
                 /\ i < j
                 /\ \E key \in DictKeys(gs[i]) \cap DictKeys(gs[j]) :
                       DictGet(gs[i], key) # DictGet(gs[j], key)

\* the last response was a failure
FetchFailed == status # 0 /\ status # 200

\* C8: when the fetch of a source file of a build fails, the script ends
\* with FileNotFoundError: that request is the last one made, no mapping of
\* the build reaches the globals, the build's output file is not written,
\* and the output files of the earlier builds are written.
ThmRetrievalFailureFatal ==
    FetchFailed =>
        /\ pc = "raised"
        /\ error = "FileNotFoundError"
        /\ nFetch = Len(log) + 1
        /\ AsMap(groups) = LastWins(GroupsOf(LogUpTo(build - 1)))
        /\ AsMap(result) = LastWins(RecordsOf(LogOfBuild(build - 1)))
        /\ \A b \in Builds : (written[b] # NoFile) <=> (b < build)

\* a fetch fails in the second build after files of it were fetched
WitRetrievalFailureFatal ==
    /\ FetchFailed
    /\ build = 2
    /\ fileIdx > 1
    /\ written[1] # NoFile

\* C9: the group mapping passed to each write_as_latex call holds every
\* group defined by this build and by the earlier ones, later definitions
\* overriding; the record mapping passed holds the records of this build's
\* own source list and no other.
ThmGroupsAccumulateRecordsDoNot ==
    pc = "write" =>
        /\ AsMap(groups) = LastWins(GroupsOf(LogUpTo(build)))
        /\ AsMap(result) = LastWins(RecordsOf(LogOfBuild(build)))

\* at the second build's call: a group only an earlier build defined, a
\* group this build redefined, and a record of the earlier build that is
\* not passed
WitGroupsAccumulateRecordsDoNot ==
    /\ pc = "write"
    /\ build = 2
    /\ LET mine    == LastWins(GroupsOf(LogOfBuild(2)))
           earlier == LastWins(GroupsOf(LogOfBuild(1)))
           oldrecs == LastWins(RecordsOf(LogOfBuild(1)))
       IN  /\ \E g \in DOMAIN earlier : g \notin DOMAIN mine /\ g \in DictKeys(groups)
           /\ \E g \in DOMAIN earlier \cap DOMAIN mine :
                 earlier[g] # mine[g] /\ DictGet(groups, g) = mine[g]
           /\ \E h \in DOMAIN oldrecs : h \notin DictKeys(result)

====
